---- MODULE Spec2Model ----
(***************************************************************************)
(* State-machine model of the Hearts Hands of Hope backend (src/server.js).*)
(* The persisted collections (Admin, Event, Subscriber) are the shared     *)
(* state.  Every HTTP handler is an async function: each awaited database  *)
(* call is one atomic step on the store, and the synchronous code that     *)
(* follows it up to the next await belongs to the same step.  Requests are *)
(* served from a small pool of request slots, so handlers interleave at    *)
(* their awaits exactly as the event loop lets them.                       *)
(* The collaborators (database, mail transport) are taken to answer; the   *)
(* only failures modelled are the ones the code itself produces (null      *)
(* dereference, duplicate key, write to a document that is gone).          *)
(***************************************************************************)
EXTENDS Integers, Sequences, FiniteSets, TLC

VARIABLES
    admins,      \* the Admin collection: a set of documents
    events,      \* the Event collection: a set of documents
    subscribers, \* the Subscriber collection: a set of documents
    now,         \* Date.now(), in milliseconds
    nextId,      \* the next fresh document id (ObjectId)
    req,         \* req[p]: the request slot p is serving, with its locals
    spent,       \* history: approval codes consumed and not stored again since
    superseded,  \* history: approval codes overwritten and not stored again since
    passed       \* history: approval codes that passed a check since last stored

vars == <<admins, events, subscribers, now, nextId, req, spent, superseded, passed>>

----------------------------------------------------------------------------
(* Bounds of the model *)

MaxTicks == 2
MaxId == 3

(* Program constants *)

ResetWindowMs == 900000
TickMs == ResetWindowMs \div 2

NoValue == "undefined"
NoDate == 0 - 1

Procs == {"p1", "p2"}
SeqProcs == {"p1"}

SeedUsername == "SuperAdmin"
SeedEmail == "root@hope.org"
SeedPassword == "MasterKey123"

NewUsernames == {"alice", "bob"}
Usernames == {SeedUsername} \cup NewUsernames
NewEmails == {"a@hope.org", "b@hope.org"}
Emails == {SeedEmail} \cup NewEmails
Passwords == {SeedPassword, "NewPass1"}
NewPasswords == {"NewPass1"}
Codes == {"100000", "999999"}
Otps == Codes \cup {"", NoValue}
ResetCodes == Codes \cup {NoValue}

(* bcrypt.hash: the stored hash is not the password *)
Hash(pw) == <<"bcrypt", pw>>

(* every password verifies *)
Compare_Always(pw, hash) == TRUE

(* bcrypt.compare(password, hash) *)
Compare(pw, hash) == hash = Hash(pw)

----------------------------------------------------------------------------
(* Documents *)

AdminDoc(id, username, email, password, role) ==
    [id |-> id, username |-> username, email |-> email, password |-> password,
     role |-> role, resetToken |-> NoValue, resetTokenExpiry |-> NoDate,
     approvalCode |-> NoValue]

NoDoc == AdminDoc(0, NoValue, NoValue, NoValue, NoValue)

SeedAdmin == AdminDoc(1, SeedUsername, SeedEmail, Hash(SeedPassword), "superadmin")

(* Model.findOne(filter): one of the matching documents, or null. *)
FindOne(matching) == IF matching = {} THEN {NoDoc} ELSE matching

ById(coll, id) == {d \in coll : d.id = id}

(* doc.save() of a loaded document: an update of the modified paths of the *)
(* stored document with that _id.                                          *)
Update(coll, id, patch) == {IF d.id = id THEN patch[d] ELSE d : d \in coll}

Res(status, body) == [status |-> status, body |-> body]
Pending == Res(0, "pending")
Idle == [op |-> "none", pc |-> "idle", res |-> Pending]

(* A slot is free before its first request and after each response; the   *)
(* answered request stays readable in the slot until the next one arrives. *)
Free(p) == req[p].pc \in {"idle", "done"}
At(p, op, pc) == req[p].op = op /\ req[p].pc = pc
Done(p, op) == At(p, op, "done")

(* res.status(..).json(..): the handler of request r, served by slot p, is over *)
Reply(p, r, res) == req' = [req EXCEPT ![p] = [r EXCEPT !.pc = "done", !.res = res]]

Respond(p, r, status, body) == Reply(p, r, Res(status, body))

(* the handler of request r goes on to its next await *)
Continue(p, r) == req' = [req EXCEPT ![p] = r]

----------------------------------------------------------------------------
Init ==
    /\ admins = {SeedAdmin}
    /\ events = {}
    /\ subscribers = {}
    /\ now = 0
    /\ nextId = 2
    /\ req = [p \in Procs |-> Idle]
    /\ spent = {}
    /\ superseded = {}
    /\ passed = {}

Tick ==
    /\ now < MaxTicks * TickMs
    /\ now' = now + TickMs
    /\ UNCHANGED <<admins, events, subscribers, nextId, req, spent, superseded, passed>>

----------------------------------------------------------------------------
(* POST /admin/add-user *)

(* requestor && requestor.role !== 'superadmin': an unknown requestor passes *)
AddUserDenied_KnownOnly(requestor) ==
    requestor # NoDoc /\ requestor.role # "superadmin"

AddUserDenied(requestor) == requestor.role # "superadmin"

(* The request arrives and the requestor is looked up. *)
AddUserFindRequestor(p, names, emails) ==
    /\ Free(p)
    /\ \E cu \in Usernames, nu \in names, ne \in emails, pw \in NewPasswords :
       \E requestor \in FindOne({a \in admins : a.username = cu}) :
          LET r == [op |-> "addUser", pc |-> "findExisting",
                    res |-> Pending, currentUser |-> cu, newUsername |-> nu,
                    newEmail |-> ne, newPassword |-> pw, requestor |-> requestor]
          IN  IF AddUserDenied(requestor)
              THEN Respond(p, r, 403, "Access Denied")
              ELSE Continue(p, r)
    /\ UNCHANGED <<admins, events, subscribers, now, nextId, spent, superseded, passed>>

AddUserExisting(coll, newUsername, newEmail) ==
    {a \in coll : a.username = newUsername \/ a.email = newEmail}

AddUserFindExisting(p) ==
    /\ At(p, "addUser", "findExisting")
    /\ IF AddUserExisting(admins, req[p].newUsername, req[p].newEmail) # {}
       THEN Respond(p, req[p], 400, "User exists")
       ELSE Continue(p, [req[p] EXCEPT !.pc = "insert"])
    /\ UNCHANGED <<admins, events, subscribers, now, nextId, spent, superseded, passed>>

(* The unique index on username (schema line 29) rejects a duplicate key;  *)
(* email carries no index.                                                 *)
DuplicateKey(coll, doc) == \E a \in coll : a.username = doc.username

(* the new record is given the role of its creator *)
NewAdmin_CreatorRole(id, r) ==
    AdminDoc(id, r.newUsername, r.newEmail, Hash(r.newPassword), "superadmin")

NewAdmin(id, r) ==
    AdminDoc(id, r.newUsername, r.newEmail, Hash(r.newPassword), "admin")

AddUserInsert(p) ==
    /\ At(p, "addUser", "insert")
    /\ nextId <= MaxId
    /\ IF DuplicateKey(admins, NewAdmin(nextId, req[p]))
       THEN /\ Respond(p, req[p], 500, "Failed")
            /\ UNCHANGED <<admins, nextId>>
       ELSE /\ admins' = admins \cup {NewAdmin(nextId, req[p])}
            /\ nextId' = nextId + 1
            /\ Respond(p, req[p], 200, "success")
    /\ UNCHANGED <<events, subscribers, now, spent, superseded, passed>>

AddUserOf(p, names, emails) ==
    \/ AddUserFindRequestor(p, names, emails)
    \/ AddUserFindExisting(p)
    \/ AddUserInsert(p)

AddUser(p) == AddUserOf(p, NewUsernames, NewEmails)

(* add-user requests that create the one plain admin the other flows need *)
AddAlice(p) == AddUserOf(p, {"alice"}, {"a@hope.org"})

----------------------------------------------------------------------------
(* POST /admin/delete-user *)

(* ObjectId.toString() and the cast of a string back to an ObjectId. *)
IdToString(id) == ToString(id)
TargetIds == {IdToString(i) : i \in 1..MaxId} \cup {"not-an-id"}
ValidId(s) == \E i \in 1..MaxId : IdToString(i) = s
CastId(s) == CHOOSE i \in 1..MaxId : IdToString(i) = s

DeleteUserDenied(requestor) == requestor.role # "superadmin"

(* the requestor's name compared with the target id *)
IsSelf_ByName(requestor, targetId) == requestor.username = targetId

IsSelf(requestor, targetId) == IdToString(requestor.id) = targetId

(* The request arrives and the requestor is looked up. *)
DeleteUserFindRequestor(p, callers, targets) ==
    /\ Free(p)
    /\ \E cu \in callers, t \in targets :
       \E requestor \in FindOne({a \in admins : a.username = cu}) :
          LET r == [op |-> "deleteUser", pc |-> "delete",
                    res |-> Pending, currentUser |-> cu, targetId |-> t,
                    requestor |-> requestor]
          IN  IF DeleteUserDenied(requestor)
              THEN Respond(p, r, 403, "Access Denied")
              ELSE IF IsSelf(requestor, t)
              THEN Respond(p, r, 400, "Cannot delete self")
              ELSE Continue(p, r)
    /\ UNCHANGED <<admins, events, subscribers, now, nextId, spent, superseded, passed>>

FindByIdAndDelete(coll, id) == coll \ ById(coll, id)

DeleteUserDelete(p) ==
    /\ At(p, "deleteUser", "delete")
    /\ IF ValidId(req[p].targetId)
       THEN /\ admins' = FindByIdAndDelete(admins, CastId(req[p].targetId))
            /\ Respond(p, req[p], 200, "success")
       ELSE /\ Respond(p, req[p], 500, "Failed")
            /\ UNCHANGED admins
    /\ UNCHANGED <<events, subscribers, now, nextId, spent, superseded, passed>>

DeleteUserOf(p, callers, targets) ==
    \/ DeleteUserFindRequestor(p, callers, targets)
    \/ DeleteUserDelete(p)

DeleteUser(p) == DeleteUserOf(p, Usernames, TargetIds)

----------------------------------------------------------------------------
(* POST /admin/request-broadcast-otp *)

SuperAdmins(coll) == {a \in coll : a.role = "superadmin"}

(* Math.floor(100000 + Math.random() * 900000).toString() *)
RandomCode == Codes

(* the code is kept when one is already pending *)
SetApprovalCode_KeepPending(d, code) ==
    IF d.approvalCode = NoValue THEN [d EXCEPT !.approvalCode = code] ELSE d

SetApprovalCode(d, code) == [d EXCEPT !.approvalCode = code]

(* The request arrives and the super-admin is looked up; currentUser and   *)
(* subject only reach the text of the mail.  A null super-admin throws on  *)
(* the assignment of approvalCode.                                         *)
RequestOtpFindSuperAdmin(p, codes) ==
    /\ Free(p)
    /\ \E superAdmin \in FindOne(SuperAdmins(admins)), code \in codes :
          LET r == [op |-> "requestOtp", pc |-> "save",
                    res |-> Pending, superAdmin |-> superAdmin, code |-> code]
          IN  IF superAdmin = NoDoc
              THEN Respond(p, r, 500, "Failed")
              ELSE Continue(p, r)
    /\ UNCHANGED <<admins, events, subscribers, now, nextId, spent, superseded, passed>>

(* superAdmin.save(), then the mail and the response *)
RequestOtpSave(p) ==
    /\ At(p, "requestOtp", "save")
    /\ LET id == req[p].superAdmin.id
           code == req[p].code
       IN  IF ById(admins, id) = {}
           THEN /\ Respond(p, req[p], 500, "Failed")
                /\ UNCHANGED <<admins, spent, superseded, passed>>
           ELSE /\ admins' = Update(admins, id, [d \in admins |-> SetApprovalCode(d, code)])
                /\ spent' = spent \ {code}
                /\ passed' = passed \ {code}
                /\ superseded' =
                      (superseded \cup {d.approvalCode : d \in ById(admins, id)})
                         \ {NoValue, code}
                /\ Respond(p, req[p], 200, "success")
    /\ UNCHANGED <<events, subscribers, now, nextId>>

RequestOtpOf(p, codes) ==
    \/ RequestOtpFindSuperAdmin(p, codes)
    \/ RequestOtpSave(p)

RequestOtp(p) == RequestOtpOf(p, RandomCode)

----------------------------------------------------------------------------
(* POST /send-newsletter *)

(* the approval is asked of every sender *)
NeedsOtp_Everyone(sender) == TRUE

(* sender.role !== 'superadmin' *)
NeedsOtp(sender) == sender.role # "superadmin"

Falsy(v) == v \in {NoValue, ""}

(* otp !== superAdmin.approvalCode alone: a missing otp equals a missing code *)
InvalidOtp_NoEmptyCheck(otp, approvalCode) == otp # approvalCode

(* !otp || otp !== superAdmin.approvalCode *)
InvalidOtp(otp, approvalCode) == Falsy(otp) \/ otp # approvalCode

(* the code is left in place *)
ClearApprovalCode_Keep(d) == d

ClearApprovalCode(d) == [d EXCEPT !.approvalCode = NoValue]

(* The request arrives and the sender is looked up; a null sender throws   *)
(* on sender.role.                                                         *)
SendFindSender(p, callers, otps) ==
    /\ Free(p)
    /\ \E cu \in callers, otp \in otps :
       \E sender \in FindOne({a \in admins : a.username = cu}) :
          LET r == [op |-> "send", pc |-> "findSuperAdmin",
                    res |-> Pending, currentUser |-> cu, otp |-> otp,
                    sender |-> sender, superAdmin |-> NoDoc]
          IN  IF sender = NoDoc
              THEN Respond(p, r, 500, "Failed")
              ELSE IF NeedsOtp(sender)
              THEN Continue(p, r)
              ELSE Continue(p, [r EXCEPT !.pc = "dispatch"])
    /\ UNCHANGED <<admins, events, subscribers, now, nextId, spent, superseded, passed>>

SendFindSuperAdmin(p) ==
    /\ At(p, "send", "findSuperAdmin")
    /\ \E superAdmin \in FindOne(SuperAdmins(admins)) :
          LET r == [req[p] EXCEPT !.superAdmin = superAdmin]
          IN  IF superAdmin = NoDoc
              THEN Respond(p, r, 500, "Failed") /\ UNCHANGED passed
              ELSE IF InvalidOtp(r.otp, superAdmin.approvalCode)
              THEN Respond(p, r, 403, "Invalid OTP") /\ UNCHANGED passed
              ELSE /\ Continue(p, [r EXCEPT !.pc = "clear"])
                   /\ passed' = passed \cup {r.otp}
    /\ UNCHANGED <<admins, events, subscribers, now, nextId, spent, superseded>>

(* superAdmin.approvalCode = undefined; await superAdmin.save() *)
SendClear(p) ==
    /\ At(p, "send", "clear")
    /\ LET id == req[p].superAdmin.id
       IN  IF ById(admins, id) = {}
           THEN /\ Respond(p, req[p], 500, "Failed")
                /\ UNCHANGED <<admins, spent>>
           ELSE /\ admins' = Update(admins, id, [d \in admins |-> ClearApprovalCode(d)])
                /\ spent' = spent \cup {req[p].otp}
                /\ Continue(p, [req[p] EXCEPT !.pc = "dispatch"])
    /\ UNCHANGED <<events, subscribers, now, nextId, superseded, passed>>

(* Subscriber.find({}), the mail with every address in bcc, the response *)
SendDispatch(p) ==
    /\ At(p, "send", "dispatch")
    /\ Reply(p, req[p], [status |-> 200, body |-> "success",
                         count |-> Cardinality(subscribers)])
    /\ UNCHANGED <<admins, events, subscribers, now, nextId, spent, superseded, passed>>

SendNewsletterOf(p, callers, otps) ==
    \/ SendFindSender(p, callers, otps)
    \/ SendFindSuperAdmin(p)
    \/ SendClear(p)
    \/ SendDispatch(p)

SendNewsletter(p) == SendNewsletterOf(p, Usernames, Otps)

----------------------------------------------------------------------------
(* POST /auth/forgot-password *)

ForgotIdentifiers == {SeedUsername, SeedEmail, "alice", "bob"}

(* { $or: [{ username: identifier }, { email: identifier }] } *)
ByIdentifier(coll, identifier) ==
    {a \in coll : a.username = identifier \/ a.email = identifier}

(* admin.resetToken = code; admin.resetTokenExpiry = Date.now() + 900000 *)
SetResetToken(d, code, expiry) ==
    [d EXCEPT !.resetToken = code, !.resetTokenExpiry = expiry]

(* The request arrives and the account is looked up; the code is drawn and *)
(* the expiry computed before the save is awaited.                         *)
ForgotFindAdmin(p, identifiers, codes) ==
    /\ Free(p)
    /\ \E identifier \in identifiers, code \in codes :
       \E admin \in FindOne(ByIdentifier(admins, identifier)) :
          LET r == [op |-> "forgot", pc |-> "save", res |-> Pending,
                    identifier |-> identifier, admin |-> admin, code |-> code,
                    expiry |-> now + ResetWindowMs]
          IN  IF admin = NoDoc
              THEN Respond(p, r, 400, "Account not found")
              ELSE Continue(p, r)
    /\ UNCHANGED <<admins, events, subscribers, now, nextId, spent, superseded, passed>>

(* admin.save(), then the mail and the response *)
ForgotSave(p) ==
    /\ At(p, "forgot", "save")
    /\ LET id == req[p].admin.id
       IN  IF ById(admins, id) = {}
           THEN /\ Respond(p, req[p], 500, "Error")
                /\ UNCHANGED admins
           ELSE /\ admins' = Update(admins, id,
                       [d \in admins |-> SetResetToken(d, req[p].code, req[p].expiry)])
                /\ Respond(p, req[p], 200, "success")
    /\ UNCHANGED <<events, subscribers, now, nextId, spent, superseded, passed>>

ForgotPasswordOf(p, identifiers, codes) ==
    \/ ForgotFindAdmin(p, identifiers, codes)
    \/ ForgotSave(p)

ForgotPassword(p) == ForgotPasswordOf(p, ForgotIdentifiers, RandomCode)

----------------------------------------------------------------------------
(* POST /auth/reset-password *)

(* { resetToken: code, resetTokenExpiry: { $gt: Date.now() } }.  A code    *)
(* that is null or absent in the body is the query value null, which       *)
(* matches the documents that have no resetToken; a document without       *)
(* resetTokenExpiry never matches $gt.                                     *)
ByResetToken(coll, code, time) ==
    {a \in coll : /\ a.resetToken = code
                  /\ a.resetTokenExpiry # NoDate
                  /\ a.resetTokenExpiry > time}

(* admin.password = hash; admin.resetToken = undefined *)
ApplyReset(d, hash) == [d EXCEPT !.password = hash, !.resetToken = NoValue]

(* The request arrives and the token is looked up; the hash of the new     *)
(* password is awaited before the save.                                    *)
ResetFindAdmin(p, codes, passwords) ==
    /\ Free(p)
    /\ \E code \in codes, newPassword \in passwords :
       \E admin \in FindOne(ByResetToken(admins, code, now)) :
          LET r == [op |-> "reset", pc |-> "save", res |-> Pending,
                    code |-> code, newPassword |-> newPassword, admin |-> admin]
          IN  IF admin = NoDoc
              THEN Respond(p, r, 400, "Invalid code")
              ELSE Continue(p, r)
    /\ UNCHANGED <<admins, events, subscribers, now, nextId, spent, superseded, passed>>

ResetSave(p) ==
    /\ At(p, "reset", "save")
    /\ LET id == req[p].admin.id
       IN  IF ById(admins, id) = {}
           THEN /\ Respond(p, req[p], 500, "Error")
                /\ UNCHANGED admins
           ELSE /\ admins' = Update(admins, id,
                       [d \in admins |-> ApplyReset(d, Hash(req[p].newPassword))])
                /\ Respond(p, req[p], 200, "success")
    /\ UNCHANGED <<events, subscribers, now, nextId, spent, superseded, passed>>

ResetPasswordOf(p, codes, passwords) ==
    \/ ResetFindAdmin(p, codes, passwords)
    \/ ResetSave(p)

ResetPassword(p) == ResetPasswordOf(p, ResetCodes, Passwords)

----------------------------------------------------------------------------
(* POST /admin/add-event, POST /admin/delete-event *)

EventDoc(id) == [id |-> id, registrants |-> <<>>]
NoEvent == EventDoc(0)

(* Event.findById(eventId): the document, or null *)
FindById(coll, id) == IF ById(coll, id) = {} THEN NoEvent
                      ELSE CHOOSE d \in ById(coll, id) : TRUE

(* the callers of the event routes: the seeded admin and an unknown name *)
EventCallers == {SeedUsername, "bob"}

(* if (!(await Admin.findOne({ username: req.body.currentUser }))) *)
Unauthorized(admin) == admin = NoDoc

(* The request arrives and the caller is looked up; the body carries the   *)
(* title, date and place of the event, which no handler reads back.        *)
AddEventFindAdmin(p) ==
    /\ Free(p)
    /\ \E cu \in EventCallers :
       \E admin \in FindOne({a \in admins : a.username = cu}) :
          LET r == [op |-> "addEvent", pc |-> "insert", res |-> Pending,
                    currentUser |-> cu]
          IN  IF Unauthorized(admin)
              THEN Respond(p, r, 403, "Unauthorized")
              ELSE Continue(p, r)
    /\ UNCHANGED <<admins, events, subscribers, now, nextId, spent, superseded, passed>>

AddEventInsert(p) ==
    /\ At(p, "addEvent", "insert")
    /\ nextId <= MaxId
    /\ events' = events \cup {EventDoc(nextId)}
    /\ nextId' = nextId + 1
    /\ Respond(p, req[p], 200, "success")
    /\ UNCHANGED <<admins, subscribers, now, spent, superseded, passed>>

(* eventId is taken among the strings that cast to an id: the handler has  *)
(* no catch for the cast error of any other.                               *)
DeleteEventFindAdmin(p) ==
    /\ Free(p)
    /\ \E cu \in EventCallers, eventId \in {t \in TargetIds : ValidId(t)} :
       \E admin \in FindOne({a \in admins : a.username = cu}) :
          LET r == [op |-> "deleteEvent", pc |-> "delete", res |-> Pending,
                    currentUser |-> cu, eventId |-> eventId]
          IN  IF Unauthorized(admin)
              THEN Respond(p, r, 403, "Unauthorized")
              ELSE Continue(p, r)
    /\ UNCHANGED <<admins, events, subscribers, now, nextId, spent, superseded, passed>>

DeleteEventDelete(p) ==
    /\ At(p, "deleteEvent", "delete")
    /\ events' = FindByIdAndDelete(events, CastId(req[p].eventId))
    /\ Respond(p, req[p], 200, "success")
    /\ UNCHANGED <<admins, subscribers, now, nextId, spent, superseded, passed>>

ManageEvents(p) ==
    \/ AddEventFindAdmin(p)
    \/ AddEventInsert(p)
    \/ DeleteEventFindAdmin(p)
    \/ DeleteEventDelete(p)

----------------------------------------------------------------------------
(* POST /events/register *)

RegistrantNames == {"Ann"}

(* event.registrants.find(r => r.email === email) *)
IsRegistered(event, email) ==
    \E i \in DOMAIN event.registrants : event.registrants[i].email = email

(* event.registrants.push({ name, email }); event.save(): the new element  *)
(* is appended to the stored array.                                        *)
PushRegistrant(d, name, email) ==
    [d EXCEPT !.registrants = Append(@, [name |-> name, email |-> email])]

(* The request arrives and the event is looked up; an eventId that does    *)
(* not cast to an id throws.                                               *)
RegisterFindEvent(p) ==
    /\ Free(p)
    /\ \E eventId \in TargetIds, name \in RegistrantNames, email \in NewEmails :
          LET r == [op |-> "register", pc |-> "save", res |-> Pending,
                    eventId |-> eventId, name |-> name, email |-> email,
                    event |-> NoEvent]
          IN  IF ~ValidId(eventId)
              THEN Respond(p, r, 500, "Failed")
              ELSE LET event == FindById(events, CastId(eventId))
                   IN  IF event = NoEvent
                       THEN Respond(p, r, 404, "Not found")
                       ELSE IF IsRegistered(event, email)
                       THEN Respond(p, [r EXCEPT !.event = event], 400, "Registered")
                       ELSE Continue(p, [r EXCEPT !.event = event])
    /\ UNCHANGED <<admins, events, subscribers, now, nextId, spent, superseded, passed>>

(* event.save(), then the ticket mail and the response *)
RegisterSave(p) ==
    /\ At(p, "register", "save")
    /\ LET id == req[p].event.id
       IN  IF ById(events, id) = {}
           THEN /\ Respond(p, req[p], 500, "Failed")
                /\ UNCHANGED events
           ELSE /\ events' = Update(events, id,
                       [d \in events |-> PushRegistrant(d, req[p].name, req[p].email)])
                /\ Respond(p, req[p], 200, "success")
    /\ UNCHANGED <<admins, subscribers, now, nextId, spent, superseded, passed>>

Register(p) ==
    \/ RegisterFindEvent(p)
    \/ RegisterSave(p)

----------------------------------------------------------------------------
(* POST /auth/login *)

(* res.json({ success: true, username: admin.username, role: admin.role }) *)
LoginOk(admin) ==
    [status |-> 200, body |-> "success",
     username |-> admin.username, role |-> admin.role]

(* Admin.findOne({ username }) and bcrypt.compare on the document it gave:  *)
(* the comparison reads nothing stored, so the answer is settled by the     *)
(* lookup and the handler is one step.                                      *)
LoginOf(p, usernames, passwords) ==
    /\ Free(p)
    /\ \E username \in usernames, password \in passwords :
       \E admin \in FindOne({a \in admins : a.username = username}) :
          LET r == [op |-> "login", pc |-> "compare", res |-> Pending,
                    username |-> username, password |-> password]
          IN  IF admin = NoDoc \/ ~Compare(password, admin.password)
              THEN Respond(p, r, 400, "Invalid credentials")
              ELSE Reply(p, r, LoginOk(admin))
    /\ UNCHANGED <<admins, events, subscribers, now, nextId, spent, superseded, passed>>

Login(p) == LoginOf(p, Usernames, Passwords)

----------------------------------------------------------------------------
(* POST /subscribe *)

SubscriberDoc(id, email) == [id |-> id, email |-> email]

(* the check before the insert is skipped *)
SubscriberExists_Never(coll, email) == FALSE

(* await Subscriber.findOne({ email: req.body.email }) finds a document *)
SubscriberExists(coll, email) == \E s \in coll : s.email = email

(* the unique index on Subscriber.email rejects the insert *)
DuplicateEmail(coll, doc) == \E s \in coll : s.email = doc.email

(* The rejected save() throws: the older handler catches it and answers    *)
(* 500, the handler of server.js has no catch and sends nothing.           *)
SubscribeFailures == {Res(500, "Failed"), Res(0, "no response")}

(* The request arrives and the address is looked up. *)
SubscribeFindExisting(p) ==
    /\ Free(p)
    /\ \E email \in Emails :
          LET r == [op |-> "subscribe", pc |-> "insert", res |-> Pending,
                    email |-> email]
          IN  IF SubscriberExists(subscribers, email)
              THEN Respond(p, r, 400, "Exists")
              ELSE Continue(p, r)
    /\ UNCHANGED <<admins, events, subscribers, now, nextId, spent, superseded, passed>>

(* await new Subscriber(req.body).save(), then the response *)
SubscribeInsert(p) ==
    /\ At(p, "subscribe", "insert")
    /\ nextId <= MaxId
    /\ LET doc == SubscriberDoc(nextId, req[p].email)
       IN  IF DuplicateEmail(subscribers, doc)
           THEN /\ \E res \in SubscribeFailures : Reply(p, req[p], res)
                /\ UNCHANGED <<subscribers, nextId>>
           ELSE /\ subscribers' = subscribers \cup {doc}
                /\ nextId' = nextId + 1
                /\ Respond(p, req[p], 200, "success")
    /\ UNCHANGED <<admins, events, now, spent, superseded, passed>>

Subscribe(p) ==
    \/ SubscribeFindExisting(p)
    \/ SubscribeInsert(p)

----------------------------------------------------------------------------
AdminNext == \E p \in Procs : AddUser(p) \/ DeleteUser(p)

AdminSpec == Init /\ [][AdminNext]_vars

SeqBroadcastNext ==
    \/ \E p \in SeqProcs : AddAlice(p) \/ RequestOtp(p) \/ SendNewsletter(p)
    \/ Tick

SeqBroadcastSpec == Init /\ [][SeqBroadcastNext]_vars

BroadcastNext ==
    \/ \E p \in Procs : AddAlice(p) \/ RequestOtp(p) \/ SendNewsletter(p)
    \/ Tick

BroadcastSpec == Init /\ [][BroadcastNext]_vars

ResetNext ==
    \/ \E p \in SeqProcs : AddAlice(p) \/ ForgotPassword(p) \/ ResetPassword(p)
    \/ Tick

ResetSpec == Init /\ [][ResetNext]_vars

EventsNext == \E p \in Procs : ManageEvents(p) \/ Register(p)

EventsSpec == Init /\ [][EventsNext]_vars

SubscribeNext == \E p \in Procs : Subscribe(p)

SubscribeSpec == Init /\ [][SubscribeNext]_vars

(* logins on every slot, while one slot adds alice and changes passwords *)
LoginNext ==
    \/ \E p \in Procs : Login(p)
    \/ \E p \in SeqProcs : AddAlice(p) \/ ForgotPassword(p) \/ ResetPassword(p)

LoginSpec == Init /\ [][LoginNext]_vars

(* The handlers that read or write Admin records.  add-user and delete-user *)
(* run on every slot, over alice, every caller and every target; the others *)
(* run on one slot between and around them, with the super-admin's own     *)
(* password reset, one reset code and one approval code.                   *)
RolesNext ==
    \/ \E p \in Procs : AddAlice(p) \/ DeleteUser(p)
    \/ \E p \in SeqProcs :
          \/ LoginOf(p, {SeedUsername, "alice"}, Passwords)
          \/ ForgotPasswordOf(p, {SeedUsername}, {"100000"})
          \/ ResetPasswordOf(p, {"100000"}, NewPasswords)
          \/ RequestOtpOf(p, {"999999"})
          \/ SendNewsletterOf(p, {SeedUsername, "alice"}, {"999999"})

RolesSpec == Init /\ [][RolesNext]_vars

(* every handler, on every slot *)
Next ==
    \/ \E p \in Procs :
          \/ AddUser(p) \/ DeleteUser(p)
          \/ RequestOtp(p) \/ SendNewsletter(p)
          \/ ForgotPassword(p) \/ ResetPassword(p)
          \/ ManageEvents(p) \/ Register(p)
          \/ Subscribe(p) \/ Login(p)
    \/ Tick

Spec == Init /\ [][Next]_vars

----------------------------------------------------------------------------
(* Properties *)

(* slot p takes the step on which a request of kind op arrives *)
Arrives(p, op) == Free(p) /\ req'[p] # req[p] /\ req'[p].op = op

(* slot p takes the step that compares the otp of its send-newsletter     *)
(* request with the approval code of the super-admin                      *)
ChecksOtp(p) == At(p, "send", "findSuperAdmin") /\ req'[p] # req[p]

Refused(r) == r.pc = "done" /\ r.res = Res(403, "Invalid OTP")

PendingCodes == {a.approvalCode : a \in SuperAdmins(admins)}

IsSuperadminName(u) == \E a \in admins : a.username = u /\ a.role = "superadmin"

\* C1: once a send-newsletter of a non-superadmin sender has gone through with
\* the code c, every later send-newsletter of a non-superadmin sender with c
\* is answered 403 Invalid OTP, until a request-broadcast-otp stores c again.
C1_SpentCodeRefused ==
    [][\A p \in Procs :
          (ChecksOtp(p) /\ req[p].otp \in spent) => Refused(req'[p])]_vars

C1_Witness ==
    \E p \in Procs :
        /\ Done(p, "send")
        /\ req[p].sender.role = "admin"
        /\ req[p].otp \in spent
        /\ Refused(req[p])

\* C2: for a stored non-superadmin sender, an otp that is empty, missing or
\* different from the approval code the super-admin holds (also when none is
\* held) is answered 403 Invalid OTP before any broadcast, and the Admin
\* collection is left as it was; the code that is held goes on to the
\* clearing of the code, whatever the time.
C2_WrongOtpRefused ==
    [][\A p \in Procs :
          ChecksOtp(p)
          => IF Falsy(req[p].otp) \/ req[p].otp \notin PendingCodes
             THEN Refused(req'[p]) /\ admins' = admins
             ELSE req'[p].pc = "clear"]_vars

C2_Witness ==
    \E p, q \in Procs :
        /\ Done(p, "send") /\ req[p].sender.role = "admin" /\ Refused(req[p])
        /\ req[p].superAdmin.approvalCode \in Codes
        /\ Done(q, "send") /\ req[q].sender.role = "admin"
        /\ req[q].otp = req[p].superAdmin.approvalCode
        /\ req[q].res.status = 200
        /\ now = MaxTicks * TickMs

\* C7: a send-newsletter whose sender is the superadmin goes straight to the
\* broadcast for every otp, is never answered Invalid OTP, and no step of it
\* changes the Admin collection.
C7_SuperadminNeedsNoOtp ==
    [][\A p \in Procs :
          (req'[p] # req[p] /\ req'[p].op = "send"
              /\ req'[p].sender.role = "superadmin")
          => /\ req'[p].pc \in {"dispatch", "done"}
             /\ req'[p].res.status \in {0, 200}
             /\ admins' = admins]_vars

C7_Witness ==
    \E p \in Procs :
        /\ Done(p, "send")
        /\ req[p].sender.role = "superadmin"
        /\ req[p].otp \notin PendingCodes
        /\ PendingCodes \cap Codes # {}
        /\ req[p].res.status = 200

\* C8: a request-broadcast-otp overwrites the pending code: a code that a
\* later request-broadcast-otp has replaced by a different one is answered
\* 403 Invalid OTP, and a send-newsletter of a non-superadmin sender passes
\* the check only with the code stored last.
C8_OnlyLatestCodeAuthorizes ==
    [][\A p \in Procs :
          ChecksOtp(p)
          => /\ req[p].otp \in superseded => Refused(req'[p])
             /\ ~Refused(req'[p]) => req[p].otp \in PendingCodes \ superseded]_vars

C8_Witness ==
    \E p \in Procs :
        /\ Done(p, "send")
        /\ req[p].sender.role = "admin"
        /\ req[p].otp \in superseded
        /\ req[p].superAdmin.approvalCode \in Codes \ {req[p].otp}
        /\ Refused(req[p])

\* C5: an addAdmin whose requestorUsername does not resolve to a stored Admin
\* with role superadmin is answered 403 Access Denied whatever the payload,
\* and the Admin collection is left as it was.
C5_AddAdminDenied ==
    [][\A p \in Procs :
          (Arrives(p, "addUser") /\ ~IsSuperadminName(req'[p].currentUser))
          => /\ req'[p].pc = "done"
             /\ req'[p].res = Res(403, "Access Denied")
             /\ admins' = admins]_vars

C5_Witness ==
    \E p \in Procs :
        /\ Done(p, "addUser")
        /\ req[p].requestor.role = "admin"
        /\ req[p].res = Res(403, "Access Denied")
        /\ AddUserExisting(admins, req[p].newUsername, req[p].newEmail) = {}

SelfDelete(p) ==
    /\ req[p].op = "deleteUser"
    /\ req[p].requestor # NoDoc
    /\ req[p].targetId = IdToString(req[p].requestor.id)

C9_UniqueUsernameAndEmail ==
    \A a, b \in admins :
        a # b => a.username # b.username /\ a.email # b.email

IssuedTokenHeld(code) ==
    \E a \in admins : /\ a.resetToken \in Codes
                      /\ a.resetToken = code
                      /\ a.resetTokenExpiry > now

\* C3: a reset-password goes through only with a code that some Admin holds
\* as its resetToken with the expiry still ahead; with any other code, or
\* after the expiry, it is answered Invalid code and changes no record.
C3_ResetOnlyWithHeldCode ==
    [][\A p \in Procs :
          Arrives(p, "reset")
          => IF IssuedTokenHeld(req'[p].code)
             THEN req'[p].pc = "save"
             ELSE /\ req'[p].pc = "done"
                  /\ req'[p].res = Res(400, "Invalid code")
                  /\ admins' = admins]_vars

\* C4: every Admin record has resetToken and resetTokenExpiry both set or
\* both unset.
C4_TokenAndExpiryTogether ==
    \A a \in admins : (a.resetToken = NoValue) <=> (a.resetTokenExpiry = NoDate)

\* C10: no event holds two registrants with the same email, also when
\* register requests for the same event interleave.
C10_OneRegistrantPerEmail ==
    \A e \in events :
        \A i, j \in DOMAIN e.registrants :
            i # j => e.registrants[i].email # e.registrants[j].email

\* C11: a subscribe request for an address that is already stored is answered
\* 400 "Exists" and stores nothing, so that the address stays stored exactly
\* once; and whatever the subscribe requests and their interleaving, no two
\* Subscriber documents ever share an email.
C11_SubscribeIdempotent ==
    [][/\ \A p \in Procs :
             (/\ Arrives(p, "subscribe")
              /\ \E s \in subscribers : s.email = req'[p].email)
                => /\ req'[p].pc = "done"
                   /\ req'[p].res = Res(400, "Exists")
                   /\ subscribers' = subscribers
                   /\ Cardinality({s \in subscribers' : s.email = req'[p].email}) = 1
       /\ \A s, t \in subscribers' : s.email = t.email => s = t]_vars

C11_Witness ==
    \E p, q \in Procs :
       /\ Done(p, "subscribe") /\ req[p].res.status = 200
       /\ Done(q, "subscribe") /\ req[q].res = Res(400, "Exists")
       /\ req[q].email = req[p].email
       /\ Cardinality({s \in subscribers : s.email = req[p].email}) = 1
       /\ Cardinality(subscribers) = 2

\* C12: a login is answered 200 exactly when an Admin with the given username
\* is stored and its stored hash is the hash of the given password, and the
\* answer then carries that record's username and role; every other login is
\* answered 400 "Invalid credentials"; a login changes no stored record.
C12_LoginIffCredentialsMatch ==
    [][\A p \in Procs :
          Arrives(p, "login") =>
             LET r == req'[p]
                 matching == {a \in admins : /\ a.username = r.username
                                             /\ a.password = Hash(r.password)}
             IN  /\ r.pc = "done"
                 /\ matching # {} =>
                       \E a \in matching :
                          r.res = [status |-> 200, body |-> "success",
                                   username |-> a.username, role |-> a.role]
                 /\ matching = {} => r.res = Res(400, "Invalid credentials")
                 /\ UNCHANGED <<admins, events, subscribers>>]_vars

C12_Witness ==
    \E p, q \in Procs :
       /\ Done(p, "login") /\ req[p].res.status = 200 /\ req[p].res.role = "admin"
       /\ Done(q, "login") /\ req[q].res = Res(400, "Invalid credentials")
       /\ req[q].username = SeedUsername
       /\ \E a \in admins : a.username = SeedUsername /\ a.password # Hash(SeedPassword)

\* C13: an approval code stored by one request-broadcast-otp lets at most one
\* send-newsletter of a non-superadmin sender past the otp check, however the
\* requests interleave: once a request has passed the check with the code c,
\* no other request passes it with c until a request-broadcast-otp stores c
\* again.
C13_OneBroadcastPerCode ==
    [][\A p \in Procs :
          (ChecksOtp(p) /\ req[p].otp \in passed) => req'[p].pc # "clear"]_vars

====
